---- MODULE Spec2Model ----
(***************************************************************************)
(* A model of the AST transformation and semantic-preservation recipes of  *)
(* batuta-cookbook:                                                        *)
(*   examples/recipe_300_3_semantic_transformations.rs                     *)
(*       Expr / Stmt, SemanticTransformer, EquivalenceChecker              *)
(*   examples/recipe_300_2_ast_manipulation.rs                             *)
(*       AstNode, AstTransformer, CodeGenerator, AstAnalyzer               *)
(* Every object is single-threaded and every public method runs to         *)
(* completion, so one action is one method call.  The tree handed to the   *)
(* object is drawn in Init (variable input); the record of the most recent *)
(* call and what it returned is kept in last.                              *)
(***************************************************************************)
EXTENDS Integers, Sequences, FiniteSets, TLC

VARIABLES
    constant_vars,  \* SemanticTransformer.constant_vars : HashMap<String, i64>
    max_unroll,     \* SemanticTransformer.max_unroll    : i64
    renames,        \* AstTransformer.renames            : HashMap<String, String>
    indent_level,   \* CodeGenerator.indent_level       : usize
    test_cases,     \* EquivalenceChecker.test_cases    : Vec<HashMap<String, i64>>
    function_count, \* AstAnalyzer.function_count       : usize
    var_count,      \* AstAnalyzer.var_count            : usize
    call_count,     \* AstAnalyzer.call_count           : usize
    max_depth,      \* AstAnalyzer.max_depth            : usize
    input,          \* the tree the caller holds
    last            \* the most recent call and its return value

generator == <<indent_level>>
checker == <<test_cases>>
analyzer == <<function_count, var_count, call_count, max_depth>>

vars == <<constant_vars, max_unroll, renames, generator, checker, analyzer,
          input, last>>

(***************************************************************************)
(* CodeGenerator::new(), EquivalenceChecker::new(), AstAnalyzer::new()     *)
(***************************************************************************)
CodeGeneratorNew == indent_level = 0

EquivalenceCheckerNew == test_cases = <<>>

AstAnalyzerNew ==
    /\ function_count = 0
    /\ var_count = 0
    /\ call_count = 0
    /\ max_depth = 0

(***************************************************************************)
(* Bounds of the model.                                                    *)
(***************************************************************************)
\* integer literals of the input trees are -MaxLit .. MaxLit
MaxLit == 2
\* an input expression has at most MaxOps BinOp / Call nodes
MaxOps == 2
\* a Call of an input expression has at most MaxArgs arguments
MaxArgs == 1
\* a block of an input statement has at most MaxBlock statements
MaxBlock == 2
\* the count of an input Loop is -1 .. MaxCount (above the default limit)
MaxCount == 9
\* with_max_unroll is called with -1 .. MaxUnrollArg
MaxUnrollArg == 3
\* a Function of an input tree has at most MaxParams parameters
MaxParams == 1
\* an EquivalenceChecker holds at most MaxCases test cases
MaxCases == 2
\* an AstAnalyzer is handed at most MaxAnalyze trees
MaxAnalyze == 2

VarNames == {"x", "y"}
FuncNames == {"f"}
Lits == (0 - MaxLit) .. MaxLit
\* values mark_constant is called with
ConstValues == {0, MaxLit}

(***************************************************************************)
(* recipe_300_3: enum Expr, enum Op                                        *)
(***************************************************************************)
Op == {"Add", "Sub", "Mul", "Div"}

ExprInt(n) == [tag |-> "Int", val |-> n]
ExprVar(name) == [tag |-> "Var", name |-> name]
ExprBinOp(op, left, right) ==
    [tag |-> "BinOp", op |-> op, left |-> left, right |-> right]
ExprCall(name, args) == [tag |-> "Call", name |-> name, args |-> args]

\* Option<T>
Some(n) == [some |-> TRUE, val |-> n]
None == [some |-> FALSE]

\* an insert that keeps the value a key already has
MapInsert_KeepFirst(m, k, v) ==
    IF k \in DOMAIN m THEN m
    ELSE [x \in DOMAIN m \cup {k} |-> IF x = k THEN v ELSE m[x]]

\* HashMap: a function whose domain is the set of keys present
EmptyMap == [k \in {} |-> 0]
MapInsert(m, k, v) == [j \in (DOMAIN m) \cup {k} |-> IF j = k THEN v ELSE m[j]]

(***************************************************************************)
(* i64 arithmetic.  Literals are bounded by MaxLit and trees by MaxOps, so *)
(* every sum, difference and product stays far inside the i64 range, where *)
(* Rust's +, - and * are the mathematical operations.  Rust's / truncates  *)
(* toward zero, while \div rounds toward minus infinity.                   *)
(***************************************************************************)
Abs(n) == IF n < 0 THEN 0 - n ELSE n

i64_div(l, r) ==
    IF (l < 0) = (r < 0) THEN Abs(l) \div Abs(r) ELSE 0 - (Abs(l) \div Abs(r))

\* the arms `Op::Add => l + r, Op::Sub => l - r, Op::Mul => l * r,
\* Op::Div if r != 0 => l / r`; the caller handles Div by zero
arith(op, l, r) ==
    CASE op = "Add" -> l + r
      [] op = "Sub" -> l - r
      [] op = "Mul" -> l * r
      [] op = "Div" -> i64_div(l, r)

RECURSIVE constant_fold(_, _)
RECURSIVE eval_expr(_, _)
RECURSIVE simplify_expr(_)

(***************************************************************************)
(* SemanticTransformer::constant_fold(&self, expr); cv is                  *)
(* self.constant_vars.                                                     *)
(***************************************************************************)
\* a fold that computes Sub with its operands swapped
constant_fold_BinOp_SubSwapped(op, left_folded, right_folded) ==
    IF left_folded.tag = "Int" /\ right_folded.tag = "Int"
    THEN IF op = "Div" /\ right_folded.val = 0
         THEN ExprBinOp(op, left_folded, right_folded)
         ELSE IF op = "Sub"
              THEN ExprInt(right_folded.val - left_folded.val)
              ELSE ExprInt(arith(op, left_folded.val, right_folded.val))
    ELSE ExprBinOp(op, left_folded, right_folded)

\* a fold without the `Op::Div if *r != 0` guard, which folds x / 0 to 0
constant_fold_BinOp_DivUnguarded(op, left_folded, right_folded) ==
    IF left_folded.tag = "Int" /\ right_folded.tag = "Int"
    THEN IF op = "Div" /\ right_folded.val = 0
         THEN ExprInt(0)
         ELSE ExprInt(arith(op, left_folded.val, right_folded.val))
    ELSE ExprBinOp(op, left_folded, right_folded)

constant_fold_BinOp(op, left_folded, right_folded) ==
    IF left_folded.tag = "Int" /\ right_folded.tag = "Int"
    THEN IF op = "Div" /\ right_folded.val = 0
         THEN ExprBinOp(op, left_folded, right_folded)
         ELSE ExprInt(arith(op, left_folded.val, right_folded.val))
    ELSE ExprBinOp(op, left_folded, right_folded)

constant_fold_Var(cv, name) ==
    IF name \in DOMAIN cv THEN ExprInt(cv[name]) ELSE ExprVar(name)

\* a fold that tests the operands as given, not as folded, for literals
constant_fold_TestsUnfolded(cv, expr) ==
    CASE expr.tag = "BinOp" ->
            IF expr.left.tag = "Int" /\ expr.right.tag = "Int"
            THEN constant_fold_BinOp(expr.op, expr.left, expr.right)
            ELSE ExprBinOp(expr.op, constant_fold(cv, expr.left),
                           constant_fold(cv, expr.right))
      [] expr.tag = "Var" -> constant_fold_Var(cv, expr.name)
      [] expr.tag = "Call" ->
            ExprCall(expr.name,
                     [i \in 1 .. Len(expr.args) |-> constant_fold(cv, expr.args[i])])
      [] expr.tag = "Int" -> expr

constant_fold(cv, expr) ==
    CASE expr.tag = "BinOp" ->
            constant_fold_BinOp(expr.op, constant_fold(cv, expr.left),
                                constant_fold(cv, expr.right))
      [] expr.tag = "Var" -> constant_fold_Var(cv, expr.name)
      [] expr.tag = "Call" ->
            ExprCall(expr.name,
                     [i \in 1 .. Len(expr.args) |-> constant_fold(cv, expr.args[i])])
      [] expr.tag = "Int" -> expr

(***************************************************************************)
(* EquivalenceChecker::eval_expr(&self, expr, vars)                        *)
(***************************************************************************)
eval_BinOp(op, l, r) ==
    IF ~l.some THEN None              \* let l = self.eval_expr(left, vars)?;
    ELSE IF ~r.some THEN None         \* let r = self.eval_expr(right, vars)?;
    ELSE IF op = "Div" /\ r.val = 0 THEN None
    ELSE Some(arith(op, l.val, r.val))

eval_expr(expr, bindings) ==
    CASE expr.tag = "Int" -> Some(expr.val)
      [] expr.tag = "Var" ->
            IF expr.name \in DOMAIN bindings THEN Some(bindings[expr.name]) ELSE None
      [] expr.tag = "BinOp" ->
            eval_BinOp(expr.op, eval_expr(expr.left, bindings),
                       eval_expr(expr.right, bindings))
      [] expr.tag = "Call" -> None

(***************************************************************************)
(* SemanticTransformer::simplify_expr(&self, expr, changes): the returned  *)
(* record holds the expression and what was added to *changes.             *)
(***************************************************************************)
IsInt(e, n) == e.tag = "Int" /\ e.val = n

\* the arms of `match (&left_simp, op, &right_simp)`, first match wins
simplify_BinOp(op, left_simp, right_simp) ==
    IF op = "Add" /\ IsInt(right_simp, 0) THEN [expr |-> left_simp, changes |-> 1]
    ELSE IF op = "Add" /\ IsInt(left_simp, 0) THEN [expr |-> right_simp, changes |-> 1]
    ELSE IF op = "Mul" /\ IsInt(right_simp, 1) THEN [expr |-> left_simp, changes |-> 1]
    ELSE IF op = "Mul" /\ IsInt(left_simp, 1) THEN [expr |-> right_simp, changes |-> 1]
    ELSE IF op = "Mul" /\ (IsInt(right_simp, 0) \/ IsInt(left_simp, 0))
         THEN [expr |-> ExprInt(0), changes |-> 1]
    ELSE [expr |-> ExprBinOp(op, left_simp, right_simp), changes |-> 0]

simplify_expr(expr) ==
    IF expr.tag = "BinOp"
    THEN LET l == simplify_expr(expr.left)
             r == simplify_expr(expr.right)
             top == simplify_BinOp(expr.op, l.expr, r.expr)
         IN  [expr |-> top.expr, changes |-> l.changes + r.changes + top.changes]
    ELSE [expr |-> expr, changes |-> 0]

(***************************************************************************)
(* recipe_300_3: enum Stmt, enum TransformationType,                       *)
(* enum PreservationLevel                                                  *)
(***************************************************************************)
StmtAssign(name, value) == [tag |-> "Assign", name |-> name, value |-> value]
StmtIf(condition, then_block, else_block) ==
    [tag |-> "If", condition |-> condition,
     then_block |-> then_block, else_block |-> else_block]
StmtLoop(count, body) == [tag |-> "Loop", count |-> count, body |-> body]
StmtExpr(expr) == [tag |-> "Expr", expr |-> expr]

TransformationType ==
    {"ConstantFolding", "DeadCodeElimination", "LoopUnrolling",
     "FunctionInlining", "ExpressionSimplification"}

PreservationLevel == {"Guaranteed", "Likely", "Unsafe"}

(***************************************************************************)
(* The apply_* methods take `changes: &mut usize`; each operator returns   *)
(* the statement together with what the call added to *changes.            *)
(***************************************************************************)
RECURSIVE SumChanges(_)
SumChanges(rs) ==
    IF rs = <<>> THEN 0 ELSE rs[1].changes + SumChanges(Tail(rs))

\* block.into_iter().map(|s| self.apply_..(s, changes)).collect(), given the
\* sequence rs of the results of the calls
BlockStmts(rs) == [i \in 1 .. Len(rs) |-> rs[i].stmt]

RECURSIVE apply_constant_folding(_, _)
RECURSIVE apply_dead_code_elimination(_)
RECURSIVE apply_loop_unrolling(_, _)

(***************************************************************************)
(* SemanticTransformer::apply_constant_folding                             *)
(***************************************************************************)
apply_constant_folding(cv, stmt) ==
    CASE stmt.tag = "Assign" ->
            LET folded == constant_fold(cv, stmt.value)
            IN  [stmt |-> StmtAssign(stmt.name, folded),
                 changes |-> IF folded # stmt.value THEN 1 ELSE 0]
      [] stmt.tag = "If" ->
            LET t == [i \in 1 .. Len(stmt.then_block) |->
                         apply_constant_folding(cv, stmt.then_block[i])]
                e == [i \in 1 .. Len(stmt.else_block) |->
                         apply_constant_folding(cv, stmt.else_block[i])]
            IN  [stmt |-> StmtIf(constant_fold(cv, stmt.condition),
                                 BlockStmts(t), BlockStmts(e)),
                 changes |-> SumChanges(t) + SumChanges(e)]
      [] stmt.tag = "Loop" ->
            LET b == [i \in 1 .. Len(stmt.body) |->
                         apply_constant_folding(cv, stmt.body[i])]
            IN  [stmt |-> StmtLoop(stmt.count, BlockStmts(b)),
                 changes |-> SumChanges(b)]
      [] stmt.tag = "Expr" ->
            LET folded == constant_fold(cv, stmt.expr)
            IN  [stmt |-> StmtExpr(folded),
                 changes |-> IF folded # stmt.expr THEN 1 ELSE 0]

(***************************************************************************)
(* SemanticTransformer::apply_dead_code_elimination                        *)
(***************************************************************************)
\* an elimination whose shells keep the branch that is not taken
eliminate_constant_if_OtherKept(val, then_block, else_block) ==
    IF val # 0
    THEN IF Len(then_block) = 1
         THEN then_block[1]
         ELSE StmtIf(ExprInt(1), then_block, else_block)
    ELSE IF Len(else_block) = 1
         THEN else_block[1]
         ELSE IF else_block = <<>>
              THEN StmtExpr(ExprInt(0))
              ELSE StmtIf(ExprInt(0), then_block, else_block)

\* an elimination that keeps the branch the condition does not take
eliminate_constant_if_Inverted(val, then_block, else_block) ==
    IF val = 0
    THEN IF Len(then_block) = 1
         THEN then_block[1]
         ELSE StmtIf(ExprInt(1), then_block, <<>>)
    ELSE IF Len(else_block) = 1
         THEN else_block[1]
         ELSE IF else_block = <<>>
              THEN StmtExpr(ExprInt(0))
              ELSE StmtIf(ExprInt(0), <<>>, else_block)

\* the If arm when the condition is Expr::Int(val)
eliminate_constant_if(val, then_block, else_block) ==
    IF val # 0
    THEN IF Len(then_block) = 1
         THEN then_block[1]
         ELSE StmtIf(ExprInt(1), then_block, <<>>)
    ELSE IF Len(else_block) = 1
         THEN else_block[1]
         ELSE IF else_block = <<>>
              THEN StmtExpr(ExprInt(0))
              ELSE StmtIf(ExprInt(0), <<>>, else_block)

\* an elimination that also works through the body of a Loop
apply_dead_code_elimination_IntoLoops(stmt) ==
    IF stmt.tag = "If"
    THEN IF stmt.condition.tag = "Int"
         THEN [stmt |-> eliminate_constant_if(stmt.condition.val,
                                              stmt.then_block, stmt.else_block),
               changes |-> 1]
         ELSE LET t == [i \in 1 .. Len(stmt.then_block) |->
                           apply_dead_code_elimination(stmt.then_block[i])]
                  e == [i \in 1 .. Len(stmt.else_block) |->
                           apply_dead_code_elimination(stmt.else_block[i])]
              IN  [stmt |-> StmtIf(stmt.condition, BlockStmts(t), BlockStmts(e)),
                   changes |-> SumChanges(t) + SumChanges(e)]
    ELSE IF stmt.tag = "Loop"
    THEN LET b == [i \in 1 .. Len(stmt.body) |->
                      apply_dead_code_elimination(stmt.body[i])]
         IN  [stmt |-> StmtLoop(stmt.count, BlockStmts(b)), changes |-> SumChanges(b)]
    ELSE [stmt |-> stmt, changes |-> 0]

apply_dead_code_elimination(stmt) ==
    IF stmt.tag = "If"
    THEN IF stmt.condition.tag = "Int"
         THEN [stmt |-> eliminate_constant_if(stmt.condition.val,
                                              stmt.then_block, stmt.else_block),
               changes |-> 1]
         ELSE LET t == [i \in 1 .. Len(stmt.then_block) |->
                           apply_dead_code_elimination(stmt.then_block[i])]
                  e == [i \in 1 .. Len(stmt.else_block) |->
                           apply_dead_code_elimination(stmt.else_block[i])]
              IN  [stmt |-> StmtIf(stmt.condition, BlockStmts(t), BlockStmts(e)),
                   changes |-> SumChanges(t) + SumChanges(e)]
    ELSE [stmt |-> stmt, changes |-> 0]

(***************************************************************************)
(* SemanticTransformer::apply_loop_unrolling; mu is self.max_unroll        *)
(***************************************************************************)
RECURSIVE unrolled(_, _)

\* `for _ in 1..count`: one copy too few
unrolled_OneShort(body, count) ==
    IF count <= 1 THEN <<>> ELSE unrolled(body, count - 1) \o body

\* for _ in 0..count { unrolled.extend(body.clone()); }
unrolled(body, count) ==
    IF count <= 0 THEN <<>> ELSE unrolled(body, count - 1) \o body

\* the test without its upper limit
should_unroll_NoLimit(count, mu) == count > 0

\* the test with `<` for `<=`
should_unroll_Strict(count, mu) == count < mu /\ count > 0

\* the test `count <= self.max_unroll && count > 0`
should_unroll(count, mu) == count <= mu /\ count > 0

apply_loop_unrolling(mu, stmt) ==
    CASE stmt.tag = "Loop" ->
            IF should_unroll(stmt.count, mu)
            THEN [stmt |-> StmtIf(ExprInt(1), unrolled(stmt.body, stmt.count), <<>>),
                  changes |-> 1]
            ELSE [stmt |-> StmtLoop(stmt.count, stmt.body), changes |-> 0]
      [] stmt.tag = "If" ->
            LET t == [i \in 1 .. Len(stmt.then_block) |->
                         apply_loop_unrolling(mu, stmt.then_block[i])]
                e == [i \in 1 .. Len(stmt.else_block) |->
                         apply_loop_unrolling(mu, stmt.else_block[i])]
            IN  [stmt |-> StmtIf(stmt.condition, BlockStmts(t), BlockStmts(e)),
                 changes |-> SumChanges(t) + SumChanges(e)]
      [] OTHER -> [stmt |-> stmt, changes |-> 0]

(***************************************************************************)
(* SemanticTransformer::apply_expression_simplification                    *)
(***************************************************************************)
apply_expression_simplification(stmt) ==
    CASE stmt.tag = "Assign" ->
            LET simplified == simplify_expr(stmt.value)
            IN  [stmt |-> StmtAssign(stmt.name, simplified.expr),
                 changes |-> simplified.changes]
      [] stmt.tag = "Expr" ->
            LET simplified == simplify_expr(stmt.expr)
            IN  [stmt |-> StmtExpr(simplified.expr),
                 changes |-> simplified.changes]
      [] OTHER -> [stmt |-> stmt, changes |-> 0]

(***************************************************************************)
(* SemanticTransformer::get_preservation_level                             *)
(***************************************************************************)
\* a classification that rates dead-code elimination as Guaranteed
get_preservation_level_DceGuaranteed(trans_type) ==
    CASE trans_type \in {"ConstantFolding", "ExpressionSimplification",
                         "DeadCodeElimination"} -> "Guaranteed"
      [] trans_type = "LoopUnrolling" -> "Likely"
      [] trans_type = "FunctionInlining" -> "Unsafe"

get_preservation_level(trans_type) ==
    CASE trans_type \in {"ConstantFolding", "ExpressionSimplification"} -> "Guaranteed"
      [] trans_type \in {"DeadCodeElimination", "LoopUnrolling"} -> "Likely"
      [] trans_type = "FunctionInlining" -> "Unsafe"

(***************************************************************************)
(* SemanticTransformer::transform_stmt(&self, stmt, trans_type): the       *)
(* TransformationResult it returns.                                        *)
(***************************************************************************)
transform_stmt(cv, mu, stmt, trans_type) ==
    LET applied ==
            CASE trans_type = "ConstantFolding" -> apply_constant_folding(cv, stmt)
              [] trans_type = "DeadCodeElimination" -> apply_dead_code_elimination(stmt)
              [] trans_type = "LoopUnrolling" -> apply_loop_unrolling(mu, stmt)
              [] trans_type = "ExpressionSimplification" ->
                    apply_expression_simplification(stmt)
              [] trans_type = "FunctionInlining" -> [stmt |-> stmt, changes |-> 0]
    IN  [original |-> stmt,
         transformed |-> applied.stmt,
         transformation_type |-> trans_type,
         preservation_level |-> get_preservation_level(trans_type),
         changes_made |-> applied.changes]

(***************************************************************************)
(* The input expressions: every Expr with at most MaxOps operator nodes    *)
(* over the literals Lits, the variables VarNames and the functions        *)
(* FuncNames.                                                              *)
(***************************************************************************)
Leaves == {ExprInt(n) : n \in Lits} \cup {ExprVar(v) : v \in VarNames}

RECURSIVE ExprsOfSize(_)
RECURSIVE ArgSeqs(_, _)

\* the argument lists of length len whose expressions hold n operator nodes
ArgSeqs(len, n) ==
    IF len = 0
    THEN IF n = 0 THEN {<<>>} ELSE {}
    ELSE UNION {{<<a>> \o rest : a \in ExprsOfSize(k), rest \in ArgSeqs(len - 1, n - k)}
                : k \in 0 .. n}

\* the sets of records are those of ExprBinOp and ExprCall
ExprsOfSize(n) ==
    IF n = 0
    THEN Leaves
    ELSE UNION {[tag : {"BinOp"}, op : Op,
                 left : ExprsOfSize(k), right : ExprsOfSize(n - 1 - k)]
                : k \in 0 .. (n - 1)}
         \cup UNION {[tag : {"Call"}, name : FuncNames, args : ArgSeqs(len, n - 1)]
                     : len \in 0 .. MaxArgs}

\* every Expr with at most n operator nodes
ExprsUpTo(n) == UNION {ExprsOfSize(k) : k \in 0 .. n}

\* the variable bindings (test cases) an expression is evaluated under
Bindings == UNION {[S -> Lits] : S \in SUBSET VarNames}

(***************************************************************************)
(* SemanticTransformer::new()                                              *)
(***************************************************************************)
DefaultMaxUnroll == 8

TransformerNew ==
    /\ constant_vars = EmptyMap
    /\ max_unroll = DefaultMaxUnroll

(***************************************************************************)
(* SemanticTransformer::mark_constant(&mut self, name, value)              *)
(***************************************************************************)
MarkConstant(name, value) ==
    /\ constant_vars' = MapInsert(constant_vars, name, value)
    /\ last' = [op |-> "mark_constant", name |-> name, value |-> value]
    /\ UNCHANGED <<max_unroll, renames, generator, checker, analyzer, input>>

(***************************************************************************)
(* a call transformer.constant_fold(input)                                 *)
(***************************************************************************)
ConstantFold ==
    /\ last' = [op |-> "constant_fold",
                result |-> constant_fold(constant_vars, input)]
    /\ UNCHANGED <<constant_vars, max_unroll, renames, generator, checker, analyzer, input>>

(***************************************************************************)
(* Constant folding: a transformer, mark_constant calls, constant_fold     *)
(* calls on an input expression.                                           *)
(***************************************************************************)
InitFold ==
    /\ TransformerNew
    /\ renames = EmptyMap
    /\ input \in ExprsUpTo(MaxOps)
    /\ CodeGeneratorNew /\ EquivalenceCheckerNew /\ AstAnalyzerNew
    /\ last = [op |-> "new"]

NextFold ==
    \/ \E name \in VarNames, value \in ConstValues : MarkConstant(name, value)
    \/ ConstantFold

SpecFold == InitFold /\ [][NextFold]_vars

Folded == last.op = "constant_fold"

\* C1: constant folding is idempotent: folding the result of constant_fold
\* again, with the same known-constant table, gives the same expression.
C1_FoldIdempotent ==
    Folded => constant_fold(constant_vars, last.result) = last.result

\* a nested operation whose inner operation folded, under a table that
\* substituted a variable
C1_Witness ==
    /\ Folded
    /\ input.tag = "BinOp" /\ input.left.tag = "BinOp"
    /\ input.left.left.tag = "Var"
    /\ last.result.tag = "Int"

\* a binding agrees with the table when it binds every marked variable to
\* the marked value
Agrees(bindings, cv) ==
    \A v \in DOMAIN cv : v \in DOMAIN bindings /\ bindings[v] = cv[v]

\* C2: under every binding that agrees with the known-constant table, the
\* folded expression evaluates to the outcome of the input expression (the
\* same integer, or undefined for both).
C2_FoldPreservesEval ==
    Folded =>
        \A b \in Bindings :
            Agrees(b, constant_vars) =>
                eval_expr(last.result, b) = eval_expr(input, b)

\* a fold that changed the expression and whose value is defined
C2_Witness ==
    /\ Folded
    /\ last.result # input
    /\ input.tag = "BinOp" /\ input.op = "Div"
    /\ \E b \in Bindings :
          /\ Agrees(b, constant_vars)
          /\ eval_expr(input, b).some
          /\ eval_expr(input, b).val < 0

DivByFoldedZero ==
    /\ Folded
    /\ input.tag = "BinOp" /\ input.op = "Div"
    /\ IsInt(constant_fold(constant_vars, input.right), 0)

\* C3: folding a Div whose right operand folds to the literal 0 returns a
\* Div BinOp of the folded operands, whatever the left operand is.
C3_DivByZeroUnfolded ==
    DivByFoldedZero =>
        /\ last.result.tag = "BinOp"
        /\ last.result.op = "Div"
        /\ last.result.left = constant_fold(constant_vars, input.left)
        /\ IsInt(last.result.right, 0)

\* both operands fold to literals, the right one to 0 only by folding
C3_Witness ==
    /\ DivByFoldedZero
    /\ input.right.tag # "Int"
    /\ input.left.tag # "Int"
    /\ last.result.left.tag = "Int"

(***************************************************************************)
(* a call transformer.simplify_expr(input, &mut changes) with changes = 0  *)
(***************************************************************************)
SimplifyExpr ==
    /\ last' = [op |-> "simplify_expr",
                result |-> simplify_expr(input).expr,
                changes |-> simplify_expr(input).changes]
    /\ UNCHANGED <<constant_vars, max_unroll, renames, generator, checker, analyzer, input>>

(***************************************************************************)
(* Expression simplification: simplify_expr calls on an input expression.  *)
(***************************************************************************)
InitSimplify ==
    /\ TransformerNew
    /\ renames = EmptyMap
    /\ input \in ExprsUpTo(MaxOps)
    /\ CodeGeneratorNew /\ EquivalenceCheckerNew /\ AstAnalyzerNew
    /\ last = [op |-> "new"]

NextSimplify == SimplifyExpr

SpecSimplify == InitSimplify /\ [][NextSimplify]_vars

Simplified == last.op = "simplify_expr"

\* C4: the simplification of Add(x, Int(0)) evaluates to the outcome of x
\* under every binding, for every expression x.
C4_AddZeroEvaluatesAsX ==
    (Simplified /\ input.tag = "BinOp" /\ input.op = "Add" /\ IsInt(input.right, 0))
        => \A b \in Bindings : eval_expr(last.result, b) = eval_expr(input.left, b)

\* C5: under every binding the simplified expression evaluates to the
\* outcome of the input expression (the same integer, or undefined for both).
C5_SimplifyPreservesEval ==
    Simplified => \A b \in Bindings : eval_expr(last.result, b) = eval_expr(input, b)

RECURSIVE HasIdentityOperand(_)

\* some subexpression of e is an Add with a literal-0 operand or a Mul with
\* a literal-0 or literal-1 operand
HasIdentityOperand(e) ==
    CASE e.tag = "BinOp" ->
            \/ e.op = "Add" /\ (IsInt(e.left, 0) \/ IsInt(e.right, 0))
            \/ e.op = "Mul" /\ (IsInt(e.left, 0) \/ IsInt(e.right, 0)
                                \/ IsInt(e.left, 1) \/ IsInt(e.right, 1))
            \/ HasIdentityOperand(e.left)
            \/ HasIdentityOperand(e.right)
      [] e.tag = "Call" -> \E i \in 1 .. Len(e.args) : HasIdentityOperand(e.args[i])
      [] OTHER -> FALSE

\* C6: no subexpression of a simplified expression is an Add with a
\* literal-0 operand or a Mul with a literal-0 or literal-1 operand.
C6_NoIdentityOperandLeft ==
    Simplified => ~HasIdentityOperand(last.result)

(***************************************************************************)
(* The input statements.  The simple statements are one that no strategy   *)
(* changes, one that simplifies and one that folds; the conditions are a   *)
(* false and a true literal, a variable and an operation that folds.       *)
(* Blocks hold up to MaxBlock statements; a compound statement nests one   *)
(* level of compound statements with shorter blocks.                       *)
(***************************************************************************)
SimpleStmts ==
    {StmtExpr(ExprInt(1)),
     StmtAssign("x", ExprBinOp("Add", ExprVar("x"), ExprInt(0))),
     StmtAssign("y", ExprBinOp("Mul", ExprInt(MaxLit), ExprInt(MaxLit)))}

CondExprs ==
    {ExprInt(0), ExprInt(MaxLit), ExprVar("x"),
     ExprBinOp("Add", ExprInt(1), ExprInt(1))}

Counts == (0 - 1) .. MaxCount

RECURSIVE BlocksOfLen(_, _)
BlocksOfLen(S, len) ==
    IF len = 0 THEN {<<>>}
    ELSE {<<st>> \o rest : st \in S, rest \in BlocksOfLen(S, len - 1)}

Blocks(S, maxlen) == UNION {BlocksOfLen(S, len) : len \in 0 .. maxlen}

\* the sets of records are those of StmtIf and StmtLoop
Compound(thens, elses, bodies) ==
    [tag : {"If"}, condition : CondExprs, then_block : thens, else_block : elses]
        \cup [tag : {"Loop"}, count : Counts, body : bodies]

InnerBlocks == Blocks(SimpleStmts, MaxBlock - 1)
InnerStmts == Compound(InnerBlocks, InnerBlocks, InnerBlocks)
NestedBlocks == {<<st>> : st \in InnerStmts}
OuterBlocks == Blocks(SimpleStmts, MaxBlock)

Stmts ==
    SimpleStmts
        \cup Compound(OuterBlocks, OuterBlocks, OuterBlocks)
        \cup Compound(NestedBlocks, {<<>>}, NestedBlocks)
        \cup Compound({<<>>}, NestedBlocks, {})

(***************************************************************************)
(* SemanticTransformer::with_max_unroll(mut self, max_unroll)              *)
(***************************************************************************)
WithMaxUnroll(m) ==
    /\ max_unroll' = m
    /\ last' = [op |-> "with_max_unroll"]
    /\ UNCHANGED <<constant_vars, renames, generator, checker, analyzer, input>>

(***************************************************************************)
(* a call transformer.transform_stmt(input, trans_type)                    *)
(***************************************************************************)
TransformStmt(trans_type) ==
    /\ last' = [op |-> "transform_stmt",
                result |-> transform_stmt(constant_vars, max_unroll, input, trans_type)]
    /\ UNCHANGED <<constant_vars, max_unroll, renames, generator, checker, analyzer, input>>

(***************************************************************************)
(* Statement transformation: a transformer, with_max_unroll calls,         *)
(* transform_stmt calls on an input statement.                             *)
(***************************************************************************)
InitStmt ==
    /\ TransformerNew
    /\ renames = EmptyMap
    /\ input \in Stmts
    /\ CodeGeneratorNew /\ EquivalenceCheckerNew /\ AstAnalyzerNew
    /\ last = [op |-> "new"]

NextStmt ==
    \/ \E m \in (0 - 1) .. MaxUnrollArg : WithMaxUnroll(m)
    \/ \E trans_type \in TransformationType : TransformStmt(trans_type)

SpecStmt == InitStmt /\ [][NextStmt]_vars

\* the input is a Loop and the last call unrolled loops in it
UnrolledLoop ==
    /\ last.op = "transform_stmt"
    /\ last.result.transformation_type = "LoopUnrolling"
    /\ input.tag = "Loop"

\* stmt is an always-true If shell with an empty else block
IsShell(stmt) ==
    stmt.tag = "If" /\ IsInt(stmt.condition, 1) /\ stmt.else_block = <<>>

\* block is n copies of body, one after the other
IsCopies(block, body, n) ==
    /\ Len(block) = (IF n > 0 THEN n ELSE 0) * Len(body)
    /\ \A k \in 0 .. (n - 1) : \A i \in 1 .. Len(body) :
          block[k * Len(body) + i] = body[i]

ProducesCopies ==
    /\ IsShell(last.result.transformed)
    /\ IsCopies(last.result.transformed.then_block, input.body, input.count)

\* C7 as claimed: unrolling a Loop with count n <= max_unroll produces
\* exactly n concatenated copies of the statements of its body, in order.
C7_Claimed_CopiesUpToMax ==
    (UnrolledLoop /\ input.count <= max_unroll) => ProducesCopies

\* C7: unrolling a Loop with count n, 0 < n <= max_unroll, produces exactly
\* n concatenated copies of the statements of its body, in order.
C7_CopiesWhenUnrolled ==
    (UnrolledLoop /\ 0 < input.count /\ input.count <= max_unroll) => ProducesCopies

\* three copies or more of a body of two different statements
C7_Witness ==
    /\ UnrolledLoop
    /\ 2 < input.count /\ input.count <= max_unroll
    /\ Len(input.body) = 2 /\ input.body[1] # input.body[2]
    /\ Len(last.result.transformed.then_block) = 2 * input.count

\* C8: unrolling a Loop with count n > max_unroll reports no change and
\* returns a statement equal to the input.
C8_LargeLoopUntouched ==
    (UnrolledLoop /\ input.count > max_unroll) =>
        /\ last.result.changes_made = 0
        /\ last.result.transformed = input

\* the loop one above the default limit, with a body
C8_Witness ==
    /\ UnrolledLoop
    /\ max_unroll = DefaultMaxUnroll
    /\ input.count = max_unroll + 1
    /\ input.body # <<>>
    /\ last.result.changes_made = 0

C9_State ==
    UnrolledLoop =>
        /\ IsShell(last.result.transformed)
              <=> (0 < input.count /\ input.count <= max_unroll)
        /\ input.count <= 0 =>
              /\ last.result.transformed = input
              /\ last.result.changes_made = 0

\* C9: a Loop is replaced by an always-true If shell with an empty else
\* block exactly when 0 < count <= max_unroll; max_unroll is 8 from new()
\* and only with_max_unroll changes it; a Loop with count <= 0 is returned
\* unchanged with no change reported.
C9_UnrollExactlyWhen ==
    /\ max_unroll = DefaultMaxUnroll
    /\ [][max_unroll' # max_unroll => last'.op = "with_max_unroll"]_vars
    /\ []C9_State

\* the loop at the default limit is unrolled
C9_Witness ==
    /\ UnrolledLoop
    /\ max_unroll = DefaultMaxUnroll
    /\ input.count = DefaultMaxUnroll
    /\ input.body # <<>>
    /\ IsShell(last.result.transformed)

(***************************************************************************)
(* recipe_300_2: enum AstNode, enum BinaryOperator, enum LiteralValue      *)
(***************************************************************************)
BinaryOperator ==
    {"Add", "Subtract", "Multiply", "Divide", "Equal", "NotEqual",
     "Less", "Greater", "And", "Or"}

\* each payload has a field of its own, as the payloads differ in type
LiteralInteger(n) == [kind |-> "Integer", int |-> n]
LiteralString(str) == [kind |-> "String", str |-> str]
LiteralBoolean(b) == [kind |-> "Boolean", bool |-> b]
LiteralNull == [kind |-> "Null"]

AstProgram(nodes) == [tag |-> "Program", nodes |-> nodes]
AstFunction(name, params, body) ==
    [tag |-> "Function", name |-> name, params |-> params, body |-> body]
AstVarDecl(name, value) == [tag |-> "VarDecl", name |-> name, value |-> value]
AstAssignment(target, value) ==
    [tag |-> "Assignment", target |-> target, value |-> value]
AstBinaryOp(op, left, right) ==
    [tag |-> "BinaryOp", op |-> op, left |-> left, right |-> right]
AstCall(function, args) == [tag |-> "Call", function |-> function, args |-> args]
\* else_branch is an Option<Vec<AstNode>>: None, or Some(nodes)
AstIf(condition, then_branch, else_branch) ==
    [tag |-> "If", condition |-> condition,
     then_branch |-> then_branch, else_branch |-> else_branch]
AstReturn(expr) == [tag |-> "Return", expr |-> expr]
AstIdentifier(name) == [tag |-> "Identifier", name |-> name]
AstLiteral(lit) == [tag |-> "Literal", lit |-> lit]

(***************************************************************************)
(* AstTransformer::rename_if_needed(&self, name)                           *)
(***************************************************************************)
\* a lookup that looks the new name up again
rename_if_needed_Chained(rn, name) ==
    IF name \notin DOMAIN rn THEN name
    ELSE IF rn[name] \in DOMAIN rn THEN rn[rn[name]]
    ELSE rn[name]

\* a lookup that gives a name absent from the table the target of some entry
rename_if_needed_AnyEntry(rn, name) ==
    IF name \in DOMAIN rn THEN rn[name]
    ELSE IF DOMAIN rn = {} THEN name
    ELSE rn[CHOOSE k \in DOMAIN rn : TRUE]

rename_if_needed(rn, name) == IF name \in DOMAIN rn THEN rn[name] ELSE name

RECURSIVE transform(_, _)

\* a transform whose Function arm clones the parameters as they are
transform_ParamsKept(rn, node) ==
    IF node.tag = "Function"
    THEN AstFunction(rename_if_needed(rn, node.name), node.params,
                     [i \in 1 .. Len(node.body) |-> transform(rn, node.body[i])])
    ELSE IF node.tag = "Program"
    THEN AstProgram([i \in 1 .. Len(node.nodes) |-> transform(rn, node.nodes[i])])
    ELSE node

(***************************************************************************)
(* AstTransformer::transform(&self, node); rn is self.renames              *)
(***************************************************************************)
transform(rn, node) ==
    CASE node.tag = "Program" ->
            AstProgram([i \in 1 .. Len(node.nodes) |-> transform(rn, node.nodes[i])])
      [] node.tag = "Function" ->
            AstFunction(rename_if_needed(rn, node.name),
                        [i \in 1 .. Len(node.params) |->
                            rename_if_needed(rn, node.params[i])],
                        [i \in 1 .. Len(node.body) |-> transform(rn, node.body[i])])
      [] node.tag = "VarDecl" ->
            AstVarDecl(rename_if_needed(rn, node.name), transform(rn, node.value))
      [] node.tag = "Assignment" ->
            AstAssignment(rename_if_needed(rn, node.target), transform(rn, node.value))
      [] node.tag = "BinaryOp" ->
            AstBinaryOp(node.op, transform(rn, node.left), transform(rn, node.right))
      [] node.tag = "Call" ->
            AstCall(rename_if_needed(rn, node.function),
                    [i \in 1 .. Len(node.args) |-> transform(rn, node.args[i])])
      [] node.tag = "If" ->
            AstIf(transform(rn, node.condition),
                  [i \in 1 .. Len(node.then_branch) |->
                      transform(rn, node.then_branch[i])],
                  IF node.else_branch.some
                  THEN Some([i \in 1 .. Len(node.else_branch.val) |->
                                transform(rn, node.else_branch.val[i])])
                  ELSE None)
      [] node.tag = "Return" -> AstReturn(transform(rn, node.expr))
      [] node.tag = "Identifier" -> AstIdentifier(rename_if_needed(rn, node.name))
      [] node.tag = "Literal" -> node

(***************************************************************************)
(* The input trees.  Every name position draws from Names; the string      *)
(* literal spells a name without being one.                                *)
(***************************************************************************)
Names == {"a", "b", "c"}

Idents == [tag : {"Identifier"}, name : Names]
AstAtoms ==
    Idents \cup {AstLiteral(LiteralInteger(1)), AstLiteral(LiteralString("a"))}
AstCalls ==
    [tag : {"Call"}, function : Names, args : {<<>>} \cup {<<e>> : e \in Idents}]
AstExprs ==
    AstAtoms \cup AstCalls
        \cup [tag : {"BinaryOp"}, op : {"Add"}, left : Idents, right : AstAtoms]

\* the statements over the expressions of the set values
AstStmtsOver(values) ==
    [tag : {"VarDecl"}, name : Names, value : values]
        \cup [tag : {"Assignment"}, target : Names, value : values]
        \cup [tag : {"Return"}, expr : values]
        \cup AstCalls

AstInnerIfs ==
    [tag : {"If"}, condition : Idents,
     then_branch : {<<AstReturn(e)>> : e \in Idents}, else_branch : {None}]

AstBodies ==
    {<<>>} \cup {<<st>> : st \in AstStmtsOver(AstAtoms) \cup AstInnerIfs}

RECURSIVE ParamLists(_)
ParamLists(len) ==
    IF len = 0 THEN {<<>>}
    ELSE {<<>>} \cup {<<n>> \o rest : n \in Names, rest \in ParamLists(len - 1)}

AstFunctions ==
    [tag : {"Function"}, name : Names, params : ParamLists(MaxParams), body : AstBodies]

AstIfs ==
    [tag : {"If"}, condition : Idents \cup {AstLiteral(LiteralBoolean(TRUE))},
     then_branch : {<<>>} \cup {<<st>> : st \in AstStmtsOver(AstAtoms)},
     else_branch : {None, Some(<<>>)} \cup {Some(<<AstReturn(e)>>) : e \in Idents}]

AstPrograms == {AstProgram(<<>>)} \cup {AstProgram(<<f>>) : f \in AstFunctions}

AstNodes ==
    AstStmtsOver(AstExprs) \cup AstExprs \cup AstFunctions \cup AstIfs \cup AstPrograms

(***************************************************************************)
(* AstTransformer::new()                                                   *)
(***************************************************************************)
AstTransformerNew == renames = EmptyMap

(***************************************************************************)
(* AstTransformer::add_rename(&mut self, old_name, new_name)               *)
(***************************************************************************)
AddRename(old_name, new_name) ==
    /\ renames' = MapInsert(renames, old_name, new_name)
    /\ last' = [op |-> "add_rename"]
    /\ UNCHANGED <<constant_vars, max_unroll, generator, checker, analyzer, input>>

(***************************************************************************)
(* a call transformer.transform(input)                                     *)
(***************************************************************************)
Transform ==
    /\ last' = [op |-> "transform", result |-> transform(renames, input)]
    /\ UNCHANGED <<constant_vars, max_unroll, renames, generator, checker, analyzer, input>>

(***************************************************************************)
(* Renaming: an AstTransformer, add_rename calls, transform calls on an    *)
(* input tree.                                                             *)
(***************************************************************************)
InitRename ==
    /\ TransformerNew
    /\ AstTransformerNew
    /\ input \in AstNodes
    /\ CodeGeneratorNew /\ EquivalenceCheckerNew /\ AstAnalyzerNew
    /\ last = [op |-> "new"]

NextRename ==
    \/ \E old_name \in Names, new_name \in Names : AddRename(old_name, new_name)
    \/ Transform

SpecRename == InitRename /\ [][NextRename]_vars

RECURSIVE NamePositions(_)
RECURSIVE NamePositionsOfAll(_)

\* the names at the name positions of the nodes of a sequence, in order
NamePositionsOfAll(nodes) ==
    IF nodes = <<>> THEN <<>>
    ELSE NamePositions(Head(nodes)) \o NamePositionsOfAll(Tail(nodes))

\* the names at the name positions of a tree, in order: function definition
\* names, parameters, declared and assigned variables, call targets and
\* identifier references
NamePositions(node) ==
    CASE node.tag = "Program" -> NamePositionsOfAll(node.nodes)
      [] node.tag = "Function" ->
            <<node.name>> \o node.params \o NamePositionsOfAll(node.body)
      [] node.tag = "VarDecl" -> <<node.name>> \o NamePositions(node.value)
      [] node.tag = "Assignment" -> <<node.target>> \o NamePositions(node.value)
      [] node.tag = "BinaryOp" -> NamePositions(node.left) \o NamePositions(node.right)
      [] node.tag = "Call" -> <<node.function>> \o NamePositionsOfAll(node.args)
      [] node.tag = "If" ->
            NamePositions(node.condition) \o NamePositionsOfAll(node.then_branch)
                \o (IF node.else_branch.some
                    THEN NamePositionsOfAll(node.else_branch.val) ELSE <<>>)
      [] node.tag = "Return" -> NamePositions(node.expr)
      [] node.tag = "Identifier" -> <<node.name>>
      [] node.tag = "Literal" -> <<>>

Transformed == last.op = "transform"

\* the rename table is {old -> new} with new another name than old
SingleRename(old) == DOMAIN renames = {old} /\ renames[old] # old

\* C10: after transform with the rename table {old -> new}, no name position
\* of the resulting tree holds old, and every position that held old holds
\* new.
C10_RenameTotal ==
    Transformed =>
        \A old \in Names :
            SingleRename(old) =>
                LET before == NamePositions(input)
                    after == NamePositions(last.result)
                IN  /\ Len(after) = Len(before)
                    /\ \A i \in 1 .. Len(after) :
                          /\ after[i] # old
                          /\ before[i] = old => after[i] = renames[old]

\* a function whose name, parameter and body all hold the renamed name
C10_Witness ==
    /\ Transformed
    /\ SingleRename("a")
    /\ input.tag = "Function"
    /\ input.name = "a" /\ input.params = <<"a">>
    /\ Len(input.body) = 1 /\ input.body[1].tag = "If"
    /\ NamePositions(input.body[1]) = <<"a", "a">>
    /\ last.result # input

RECURSIVE Skeleton(_)

\* a tree with every name position blanked: what is left is the node kinds,
\* the operators, the literals and the order of the children
Skeleton(node) ==
    CASE node.tag = "Program" ->
            AstProgram([i \in 1 .. Len(node.nodes) |-> Skeleton(node.nodes[i])])
      [] node.tag = "Function" ->
            AstFunction("_", [i \in 1 .. Len(node.params) |-> "_"],
                        [i \in 1 .. Len(node.body) |-> Skeleton(node.body[i])])
      [] node.tag = "VarDecl" -> AstVarDecl("_", Skeleton(node.value))
      [] node.tag = "Assignment" -> AstAssignment("_", Skeleton(node.value))
      [] node.tag = "BinaryOp" ->
            AstBinaryOp(node.op, Skeleton(node.left), Skeleton(node.right))
      [] node.tag = "Call" ->
            AstCall("_", [i \in 1 .. Len(node.args) |-> Skeleton(node.args[i])])
      [] node.tag = "If" ->
            AstIf(Skeleton(node.condition),
                  [i \in 1 .. Len(node.then_branch) |-> Skeleton(node.then_branch[i])],
                  IF node.else_branch.some
                  THEN Some([i \in 1 .. Len(node.else_branch.val) |->
                                Skeleton(node.else_branch.val[i])])
                  ELSE None)
      [] node.tag = "Return" -> AstReturn(Skeleton(node.expr))
      [] node.tag = "Identifier" -> AstIdentifier("_")
      [] node.tag = "Literal" -> node

\* C11: transform changes nothing but the names that are keys of the rename
\* table: the resulting tree has the node kinds, operators, literals and child
\* order of the input, every name position whose name is not a key holds the
\* same name as before, and with an empty table the result equals the input.
C11_RenameFrame ==
    Transformed =>
        LET before == NamePositions(input)
            after == NamePositions(last.result)
        IN  /\ Skeleton(last.result) = Skeleton(input)
            /\ Len(after) = Len(before)
            /\ \A i \in 1 .. Len(before) :
                  before[i] \notin DOMAIN renames => after[i] = before[i]
            /\ renames = EmptyMap => last.result = input

\* a declaration of the renamed a whose value adds b, which is no key, and
\* the string literal that spells a
C11_Witness ==
    /\ Transformed
    /\ DOMAIN renames = {"a"} /\ renames["a"] = "c"
    /\ input = AstVarDecl("a", AstBinaryOp("Add", AstIdentifier("b"),
                                           AstLiteral(LiteralString("a"))))
    /\ last.result = AstVarDecl("c", AstBinaryOp("Add", AstIdentifier("b"),
                                                 AstLiteral(LiteralString("a"))))

(***************************************************************************)
(* The trees handed to the CodeGenerator and to the AstAnalyzer: every     *)
(* node kind, every operator, expressions nested in expressions and        *)
(* statements nested in If, Function and Program.  The model has no        *)
(* LiteralValue::Float.                                                    *)
(***************************************************************************)
IdA == AstIdentifier("a")
Int1 == AstLiteral(LiteralInteger(1))

TreeAtoms ==
    {IdA, Int1, AstLiteral(LiteralInteger(0 - MaxLit)),
     AstLiteral(LiteralString("a")), AstLiteral(LiteralBoolean(TRUE)),
     AstLiteral(LiteralBoolean(FALSE)), AstLiteral(LiteralNull)}

TreeCalls ==
    [tag : {"Call"}, function : {"f"},
     args : {<<>>, <<IdA>>, <<IdA, Int1>>, <<AstCall("f", <<Int1>>)>>}]

TreeBinaryOps ==
    [tag : {"BinaryOp"}, op : BinaryOperator, left : {IdA}, right : {Int1}]
        \cup [tag : {"BinaryOp"}, op : {"Multiply"},
              left : {IdA, AstBinaryOp("Add", IdA, Int1)},
              right : {AstBinaryOp("Subtract", IdA, Int1), AstCall("f", <<IdA>>)}]

TreeExprs == TreeAtoms \cup TreeCalls \cup TreeBinaryOps

\* statements; the last VarDecl holds a statement where a value belongs
TreeSimple ==
    [tag : {"VarDecl"}, name : {"a"}, value : TreeExprs \cup {AstReturn(IdA)}]
        \cup [tag : {"Assignment"}, target : {"b"},
              value : {IdA, AstCall("f", <<>>)}]
        \cup [tag : {"Return"}, expr : {IdA, AstBinaryOp("Add", IdA, Int1)}]
        \cup TreeCalls

TreeInnerIfs ==
    [tag : {"If"}, condition : {IdA},
     then_branch : {<<>>, <<AstReturn(IdA)>>},
     else_branch : {None, Some(<<>>), Some(<<AstCall("f", <<>>)>>)}]

\* a block holds statements, an If, or a bare expression
TreeBlockStmts ==
    {AstVarDecl("a", Int1), AstVarDecl("a", AstCall("f", <<IdA>>)),
     AstReturn(IdA), AstCall("f", <<>>), IdA}

TreeBodies ==
    {<<>>} \cup {<<st>> : st \in TreeBlockStmts \cup TreeInnerIfs}
        \cup {<<st, nested>> : st \in {AstVarDecl("a", Int1), AstCall("f", <<>>)},
                               nested \in TreeInnerIfs}

TreeFunctions ==
    [tag : {"Function"}, name : {"f"}, params : {<<>>, <<"a">>, <<"a", "b">>},
     body : TreeBodies]

TreeIfs ==
    [tag : {"If"}, condition : {AstBinaryOp("Less", IdA, Int1)},
     then_branch : TreeBodies,
     else_branch : {None, Some(<<>>), Some(<<AstReturn(IdA)>>)}]

TreePrograms ==
    {AstProgram(<<>>)} \cup {AstProgram(<<fn>>) : fn \in TreeFunctions}
        \cup {AstProgram(<<AstFunction("f", <<>>, <<st>>),
                           AstFunction("g", <<"a">>, body)>>) :
                 st \in {AstReturn(IdA)} \cup TreeInnerIfs,
                 body \in {<<>>, <<AstCall("f", <<>>)>>}}

Trees ==
    TreeExprs \cup TreeSimple \cup TreeInnerIfs \cup TreeFunctions
        \cup TreeIfs \cup TreePrograms

(***************************************************************************)
(* recipe_300_2: CodeGenerator.  Text is a string; generate_node threads   *)
(* self.indent_level and returns the text with the level it leaves behind. *)
(***************************************************************************)
IndentSize == 4

RECURSIVE Spaces(_)
\* " ".repeat(n)
Spaces(n) == IF n = 0 THEN "" ELSE " " \o Spaces(n - 1)

\* CodeGenerator::indent(&self)
indent(level) == Spaces(level * IndentSize)

RECURSIVE Join(_, _)
\* [String]::join(sep)
Join(strs, sep) ==
    IF strs = <<>> THEN ""
    ELSE IF Len(strs) = 1 THEN strs[1]
    ELSE strs[1] \o sep \o Join(Tail(strs), sep)

\* impl fmt::Display for BinaryOperator
BinaryOperatorDisplay(op) ==
    CASE op = "Add" -> "+"
      [] op = "Subtract" -> "-"
      [] op = "Multiply" -> "*"
      [] op = "Divide" -> "/"
      [] op = "Equal" -> "=="
      [] op = "NotEqual" -> "!="
      [] op = "Less" -> "<"
      [] op = "Greater" -> ">"
      [] op = "And" -> "&&"
      [] op = "Or" -> "||"

\* the match on a LiteralValue in generate_expr
LiteralText(lit) ==
    CASE lit.kind = "Integer" -> ToString(lit.int)
      [] lit.kind = "String" -> "\"" \o lit.str \o "\""
      [] lit.kind = "Boolean" -> (IF lit.bool THEN "true" ELSE "false")
      [] lit.kind = "Null" -> "null"

RECURSIVE generate_expr(_)

\* a renderer that writes a binary operation without its parentheses
generate_expr_Bare(node) ==
    IF node.tag = "Identifier" THEN node.name
    ELSE IF node.tag = "Literal" THEN LiteralText(node.lit)
    ELSE IF node.tag = "BinaryOp"
    THEN generate_expr(node.left) \o " " \o BinaryOperatorDisplay(node.op)
             \o " " \o generate_expr(node.right)
    ELSE IF node.tag = "Call"
    THEN node.function \o "("
             \o Join([i \in 1 .. Len(node.args) |-> generate_expr(node.args[i])], ", ")
             \o ")"
    ELSE ""

(***************************************************************************)
(* CodeGenerator::generate_expr(&self, node)                               *)
(***************************************************************************)
generate_expr(node) ==
    IF node.tag = "Identifier" THEN node.name
    ELSE IF node.tag = "Literal" THEN LiteralText(node.lit)
    ELSE IF node.tag = "BinaryOp"
    THEN "(" \o generate_expr(node.left) \o " " \o BinaryOperatorDisplay(node.op)
             \o " " \o generate_expr(node.right) \o ")"
    ELSE IF node.tag = "Call"
    THEN node.function \o "("
             \o Join([i \in 1 .. Len(node.args) |-> generate_expr(node.args[i])], ", ")
             \o ")"
    ELSE ""

\* a generator that enters a block without stepping the level up
enter_block_Skipped(level) == level

\* self.indent_level += 1 and self.indent_level -= 1
enter_block(level) == level + 1

\* a generator that leaves a block without stepping the level back
leave_block_Kept(level) == level

leave_block(level) == level - 1

Min(a, b) == IF a <= b THEN a ELSE b
Max(a, b) == IF a >= b THEN a ELSE b

RECURSIVE generate_node(_, _)
RECURSIVE generate_each(_, _)

\* generate_node on the statements of a block in order: the texts, the level
\* left behind, and the lowest and the highest level held on the way
generate_each(level, nodes) ==
    IF nodes = <<>>
    THEN [texts |-> <<>>, level |-> level, low |-> level, high |-> level]
    ELSE LET first == generate_node(level, Head(nodes))
             rest == generate_each(first.level, Tail(nodes))
         IN  [texts |-> <<first.text>> \o rest.texts, level |-> rest.level,
              low |-> Min(first.low, rest.low), high |-> Max(first.high, rest.high)]

\* the loop `for stmt in block { push_str(generate_node(stmt)); push('\n') }`
\* between the two steps of the level
generate_block(level, block) ==
    LET each == generate_each(enter_block(level), block)
        left == leave_block(each.level)
    IN  [text |-> Join([i \in 1 .. Len(block) |-> each.texts[i] \o "\n"], ""),
         level |-> left,
         low |-> Min(Min(level, each.low), left),
         high |-> Max(Max(level, each.high), left)]

(***************************************************************************)
(* CodeGenerator::generate_node(&mut self, node); level is                 *)
(* self.indent_level at the call.  The result holds the text, the level    *)
(* the call leaves behind, and the lowest and highest level self held      *)
(* during the call.                                                        *)
(***************************************************************************)
generate_node(level, node) ==
    IF node.tag = "Program"
    THEN LET each == generate_each(level, node.nodes)
         IN  [text |-> Join(each.texts, "\n"), level |-> each.level,
              low |-> each.low, high |-> each.high]
    ELSE IF node.tag = "Function"
    THEN LET ind == indent(level)
             body == generate_block(level, node.body)
         IN  [text |-> ind \o "fn " \o node.name \o "(" \o Join(node.params, ", ")
                           \o ") {\n" \o body.text \o ind \o "}",
              level |-> body.level, low |-> body.low, high |-> body.high]
    ELSE IF node.tag = "VarDecl"
    THEN [text |-> indent(level) \o "let " \o node.name \o " = "
                       \o generate_expr(node.value) \o ";",
          level |-> level, low |-> level, high |-> level]
    ELSE IF node.tag = "Assignment"
    THEN [text |-> indent(level) \o node.target \o " = "
                       \o generate_expr(node.value) \o ";",
          level |-> level, low |-> level, high |-> level]
    ELSE IF node.tag = "Call"
    THEN [text |-> indent(level) \o generate_expr(node) \o ";",
          level |-> level, low |-> level, high |-> level]
    ELSE IF node.tag = "If"
    THEN LET ind == indent(level)
             then_part == generate_block(level, node.then_branch)
             head == ind \o "if " \o generate_expr(node.condition) \o " {\n"
                         \o then_part.text \o ind \o "}"
         IN  IF node.else_branch.some
             THEN LET else_part == generate_block(then_part.level, node.else_branch.val)
                  IN  [text |-> head \o " else {\n" \o else_part.text \o ind \o "}",
                       level |-> else_part.level,
                       low |-> Min(then_part.low, else_part.low),
                       high |-> Max(then_part.high, else_part.high)]
             ELSE [text |-> head, level |-> then_part.level,
                   low |-> then_part.low, high |-> then_part.high]
    ELSE IF node.tag = "Return"
    THEN [text |-> indent(level) \o "return " \o generate_expr(node.expr) \o ";",
          level |-> level, low |-> level, high |-> level]
    ELSE [text |-> generate_expr(node), level |-> level, low |-> level, high |-> level]

(***************************************************************************)
(* a call generator.generate(&tree): CodeGenerator::generate               *)
(***************************************************************************)
Generate(tree) ==
    LET out == generate_node(indent_level, tree)
    IN  /\ input' = tree
        /\ indent_level' = out.level
        /\ last' = [op |-> "generate", result |-> out.text,
                    low |-> out.low, high |-> out.high]
        /\ UNCHANGED <<constant_vars, max_unroll, renames, checker, analyzer>>

(***************************************************************************)
(* Code generation: one CodeGenerator, generate calls on one tree after    *)
(* another; input is the tree of the most recent call.                     *)
(***************************************************************************)
InitGenerate ==
    /\ TransformerNew
    /\ AstTransformerNew
    /\ CodeGeneratorNew /\ EquivalenceCheckerNew /\ AstAnalyzerNew
    /\ input = AstProgram(<<>>)
    /\ last = [op |-> "new"]

NextGenerate == \E tree \in Trees : Generate(tree)

SpecGenerate == InitGenerate /\ [][NextGenerate]_vars

Generated == last.op = "generate"

\* what a CodeGenerator fresh from new() returns for a tree
FreshText(tree) == generate_node(0, tree).text

\* C12: generate is deterministic: whatever trees a CodeGenerator generated
\* before, its text for a tree is the text a fresh CodeGenerator returns for
\* it, and two calls in a row on the same tree return the same text.
C12_GenerateDeterministic ==
    /\ [](Generated => last.result = FreshText(input))
    /\ [][(Generated /\ last'.op = "generate" /\ input' = input)
             => last'.result = last.result]_vars

\* a used generator has just generated a function with a nested If
C12_Witness ==
    /\ Generated
    /\ input = AstFunction("f", <<"a", "b">>,
                           <<AstVarDecl("a", Int1),
                             AstIf(IdA, <<AstReturn(IdA)>>, Some(<<AstCall("f", <<>>)>>))>>)
    /\ last.result =
          "fn f(a, b) {\n    let a = 1;\n    if a {\n        return a;\n"
              \o "    } else {\n        f();\n    }\n}"

(***************************************************************************)
(* recipe_300_3: EquivalenceChecker                                        *)
(***************************************************************************)
RECURSIVE cases_agree(_, _, _)

\* a loop that looks at the first test case only
cases_agree_FirstOnly(tcs, expr1, expr2) ==
    eval_expr(expr1, Head(tcs)) = eval_expr(expr2, Head(tcs))

\* the loop `for test_case in &self.test_cases` of expressions_equivalent:
\* false at the first test case whose two Option<i64> values differ
cases_agree(tcs, expr1, expr2) ==
    IF tcs = <<>> THEN TRUE
    ELSE IF eval_expr(expr1, Head(tcs)) # eval_expr(expr2, Head(tcs)) THEN FALSE
    ELSE cases_agree(Tail(tcs), expr1, expr2)

\* a checker that has no fallback for an empty list of test cases
expressions_equivalent_NoFallback(tcs, expr1, expr2) ==
    cases_agree(tcs, expr1, expr2)

(***************************************************************************)
(* EquivalenceChecker::expressions_equivalent(&self, expr1, expr2); tcs is *)
(* self.test_cases.  `expr1 == expr2` is the derived PartialEq of Expr.    *)
(***************************************************************************)
expressions_equivalent(tcs, expr1, expr2) ==
    IF tcs = <<>> THEN expr1 = expr2
    ELSE cases_agree(tcs, expr1, expr2)

\* the expressions handed to the checker: literals, variables, a call, every
\* operator, division by a literal zero and by a variable
CheckLeaves == {ExprInt(0), ExprInt(MaxLit), ExprVar("x"), ExprVar("y")}

CheckExprs ==
    CheckLeaves \cup {ExprCall("f", <<>>)}
        \cup [tag : {"BinOp"}, op : Op, left : {ExprVar("x"), ExprInt(MaxLit)},
              right : {ExprVar("y"), ExprInt(0), ExprInt(MaxLit)}]

\* the test cases: x and y are bound to 0 or MaxLit, or left unbound
TestCases == UNION {[S -> ConstValues] : S \in SUBSET VarNames}

\* an add_test_case that replaces the test cases by the new one
AddTestCase_Replacing(tc) ==
    /\ Len(test_cases) < MaxCases
    /\ test_cases' = <<tc>>
    /\ last' = [op |-> "add_test_case"]
    /\ UNCHANGED <<constant_vars, max_unroll, renames, generator, analyzer, input>>

(***************************************************************************)
(* EquivalenceChecker::add_test_case(&mut self, vars)                      *)
(***************************************************************************)
AddTestCase(tc) ==
    /\ Len(test_cases) < MaxCases
    /\ test_cases' = Append(test_cases, tc)
    /\ last' = [op |-> "add_test_case"]
    /\ UNCHANGED <<constant_vars, max_unroll, renames, generator, analyzer, input>>

(***************************************************************************)
(* a call checker.expressions_equivalent(&input.expr1, &input.expr2)       *)
(***************************************************************************)
ExpressionsEquivalent ==
    /\ last' = [op |-> "expressions_equivalent",
                result |-> expressions_equivalent(test_cases, input.expr1, input.expr2)]
    /\ UNCHANGED <<constant_vars, max_unroll, renames, generator, checker,
                   analyzer, input>>

(***************************************************************************)
(* Equivalence checking: an EquivalenceChecker, add_test_case calls,       *)
(* expressions_equivalent calls on a pair of expressions.                  *)
(***************************************************************************)
InitEquiv ==
    /\ TransformerNew
    /\ AstTransformerNew
    /\ CodeGeneratorNew /\ EquivalenceCheckerNew /\ AstAnalyzerNew
    /\ input \in [expr1 : CheckExprs, expr2 : CheckExprs]
    /\ last = [op |-> "new"]

NextEquiv ==
    \/ \E tc \in TestCases : AddTestCase(tc)
    \/ ExpressionsEquivalent

SpecEquiv == InitEquiv /\ [][NextEquiv]_vars

Compared == last.op = "expressions_equivalent"

\* both expressions of the input evaluate to an integer under the test case
BothDefined(tc) ==
    eval_expr(input.expr1, tc).some /\ eval_expr(input.expr2, tc).some

\* the two expressions of the input evaluate to the same integer
SameValue(tc) == eval_expr(input.expr1, tc).val = eval_expr(input.expr2, tc).val

Scenarios == {test_cases[i] : i \in 1 .. Len(test_cases)}

\* C13: with at least one test case and both expressions defined under every
\* test case, expressions_equivalent returns true exactly when the two
\* expressions evaluate to the same integer under every test case.
C13_EquivalentIffSameValues ==
    (Compared /\ test_cases # <<>> /\ \A tc \in Scenarios : BothDefined(tc))
        => (last.result <=> \A tc \in Scenarios : SameValue(tc))

\* x + 0 against the literal MaxLit: the first test case agrees, the second
\* gives two different values
C13_Witness ==
    /\ Compared
    /\ input.expr1 = ExprBinOp("Add", ExprVar("x"), ExprInt(0))
    /\ input.expr2 = ExprInt(MaxLit)
    /\ Len(test_cases) = 2
    /\ BothDefined(test_cases[1]) /\ SameValue(test_cases[1])
    /\ BothDefined(test_cases[2]) /\ ~SameValue(test_cases[2])
    /\ last.result = FALSE

\* C14: a test case under which either expression is undefined is skipped:
\* expressions_equivalent returns false only when some test case yields two
\* different defined values.
C14_UndefinedIsSkipped ==
    (Compared /\ test_cases # <<>> /\ last.result = FALSE)
        => \E tc \in Scenarios : BothDefined(tc) /\ ~SameValue(tc)

\* C15: with no test case registered, expressions_equivalent returns the
\* structural equality of the two expressions.
C15_NoCasesStructural ==
    (Compared /\ test_cases = <<>>)
        => (last.result <=> input.expr1 = input.expr2)

\* x + 0 against x, equal under every binding and structurally different
C15_Witness ==
    /\ Compared
    /\ test_cases = <<>>
    /\ input.expr1 = ExprBinOp("Add", ExprVar("x"), ExprInt(0))
    /\ input.expr2 = ExprVar("x")
    /\ last.result = FALSE

(***************************************************************************)
(* recipe_300_2: AstAnalyzer.  st is the analyzer's four fields.           *)
(***************************************************************************)
\* an analyzer that counts no VarDecl
count_node_VarDeclMissed(st, node) ==
    IF node.tag = "Function" THEN [st EXCEPT !.function_count = @ + 1]
    ELSE IF node.tag = "Call" THEN [st EXCEPT !.call_count = @ + 1]
    ELSE st

\* the `+= 1` of the Function, VarDecl and Call arms of visit_with_depth
count_node(st, node) ==
    IF node.tag = "Function" THEN [st EXCEPT !.function_count = @ + 1]
    ELSE IF node.tag = "VarDecl" THEN [st EXCEPT !.var_count = @ + 1]
    ELSE IF node.tag = "Call" THEN [st EXCEPT !.call_count = @ + 1]
    ELSE st

\* the nodes the arms of visit_with_depth recurse into, in the order of the
\* calls
visited_children(node) ==
    CASE node.tag = "Program" -> node.nodes
      [] node.tag = "Function" -> node.body
      [] node.tag = "VarDecl" -> <<node.value>>
      [] node.tag = "Assignment" -> <<node.value>>
      [] node.tag = "BinaryOp" -> <<node.left, node.right>>
      [] node.tag = "Call" -> node.args
      [] node.tag = "If" ->
            <<node.condition>> \o node.then_branch
                \o (IF node.else_branch.some THEN node.else_branch.val ELSE <<>>)
      [] node.tag = "Return" -> <<node.expr>>
      [] node.tag = "Identifier" -> <<>>
      [] node.tag = "Literal" -> <<>>

\* an analyzer that visits the children at the depth of their parent
child_depth_Same(depth) == depth

\* the `depth + 1` of the recursive calls
child_depth(depth) == depth + 1

RECURSIVE visit_with_depth(_, _, _)
RECURSIVE visit_each(_, _, _)

\* visit_with_depth on the nodes of a sequence in order
visit_each(st, nodes, depth) ==
    IF nodes = <<>> THEN st
    ELSE visit_each(visit_with_depth(st, Head(nodes), depth), Tail(nodes), depth)

(***************************************************************************)
(* AstAnalyzer::visit_with_depth(&mut self, node, depth): the fields after *)
(* the call.  Every path returns Ok(()).                                   *)
(***************************************************************************)
visit_with_depth(st, node, depth) ==
    LET seen == [st EXCEPT !.max_depth = Max(@, depth)]
    IN  visit_each(count_node(seen, node), visited_children(node), child_depth(depth))

\* the fields of the AstAnalyzer
AnalyzerFields ==
    [function_count |-> function_count, var_count |-> var_count,
     call_count |-> call_count, max_depth |-> max_depth]

\* the number of analyze calls made so far
AnalyzeCalls == IF last.op = "analyze" THEN last.calls ELSE 0

(***************************************************************************)
(* a call analyzer.analyze(&tree): AstAnalyzer::analyze                    *)
(***************************************************************************)
Analyze(tree) ==
    LET st == visit_with_depth(AnalyzerFields, tree, 0)
    IN  /\ AnalyzeCalls < MaxAnalyze
        /\ input' = tree
        /\ function_count' = st.function_count
        /\ var_count' = st.var_count
        /\ call_count' = st.call_count
        /\ max_depth' = st.max_depth
        /\ last' = [op |-> "analyze", calls |-> AnalyzeCalls + 1]
        /\ UNCHANGED <<constant_vars, max_unroll, renames, generator, checker>>

(***************************************************************************)
(* Analysis: one AstAnalyzer, analyze calls on one tree after another;     *)
(* input is the tree of the most recent call.                              *)
(***************************************************************************)
InitAnalyze ==
    /\ TransformerNew
    /\ AstTransformerNew
    /\ CodeGeneratorNew /\ EquivalenceCheckerNew /\ AstAnalyzerNew
    /\ input = AstProgram(<<>>)
    /\ last = [op |-> "new"]

\* parameters are names, not nodes, and no arm of visit_with_depth reads them:
\* of the functions that differ in their parameters alone, one is analyzed
AnalyzeTrees ==
    {tree \in Trees :
        /\ tree.tag = "Function" => tree.params = <<"a">>
        /\ (tree.tag = "Program" /\ Len(tree.nodes) = 1)
              => tree.nodes[1].params = <<"a">>}

NextAnalyze == \E tree \in AnalyzeTrees : Analyze(tree)

SpecAnalyze == InitAnalyze /\ [][NextAnalyze]_vars

RECURSIVE NodesOf(_, _)
RECURSIVE NodesOfAll(_, _)

\* the nodes of the trees of a sequence, all rooted at the depth d
NodesOfAll(trees, d) ==
    IF trees = <<>> THEN <<>>
    ELSE NodesOf(Head(trees), d) \o NodesOfAll(Tail(trees), d)

\* the nodes of a tree with their depths, the root at depth d: each node's
\* kind, and the nodes of the fields of AstNode that hold nodes
NodesOf(node, d) ==
    <<[kind |-> node.tag, depth |-> d]>> \o
    (CASE node.tag \in {"Identifier", "Literal"} -> <<>>
       [] node.tag = "Program" -> NodesOfAll(node.nodes, d + 1)
       [] node.tag = "Function" -> NodesOfAll(node.body, d + 1)
       [] node.tag \in {"VarDecl", "Assignment"} -> NodesOf(node.value, d + 1)
       [] node.tag = "Return" -> NodesOf(node.expr, d + 1)
       [] node.tag = "BinaryOp" ->
             NodesOf(node.left, d + 1) \o NodesOf(node.right, d + 1)
       [] node.tag = "Call" -> NodesOfAll(node.args, d + 1)
       [] node.tag = "If" ->
             NodesOf(node.condition, d + 1) \o NodesOfAll(node.then_branch, d + 1)
                 \o (IF node.else_branch.some
                     THEN NodesOfAll(node.else_branch.val, d + 1) ELSE <<>>))

\* the number of nodes of a kind in a tree
CountOf(tree, kind) ==
    LET nodes == NodesOf(tree, 0)
    IN  Cardinality({i \in 1 .. Len(nodes) : nodes[i].kind = kind})

\* the largest depth of a node of a tree
DepthOf(tree) ==
    LET nodes == NodesOf(tree, 0)
    IN  CHOOSE d \in {nodes[i].depth : i \in 1 .. Len(nodes)} :
            \A i \in 1 .. Len(nodes) : nodes[i].depth <= d

\* the first analyze call of an analyzer has returned
AnalyzedFresh == last.op = "analyze" /\ last.calls = 1

\* C16: after analyze on a fresh analyzer, function_count, var_count and
\* call_count are the numbers of Function, VarDecl and Call nodes of the
\* tree, at any nesting level.
C16_CountsMatchNodes ==
    AnalyzedFresh =>
        /\ function_count = CountOf(input, "Function")
        /\ var_count = CountOf(input, "VarDecl")
        /\ call_count = CountOf(input, "Call")

\* a function that declares a variable and nests a call in the else branch of
\* an If
C16_Witness ==
    /\ AnalyzedFresh
    /\ input = AstProgram(<<AstFunction("f", <<"a">>,
                              <<AstVarDecl("a", Int1),
                                AstIf(IdA, <<AstReturn(IdA)>>,
                                      Some(<<AstCall("f", <<>>)>>))>>)>>)
    /\ function_count = 1 /\ var_count = 1 /\ call_count = 1

\* C17: after analyze on a fresh analyzer, max_depth is the largest depth of
\* a node of the tree, the root at depth 0 and a child one below its parent.
C17_MaxDepthIsDeepest ==
    AnalyzedFresh => max_depth = DepthOf(input)

\* Program, Function, If, Call: the call in the else branch is at depth 3
C17_Witness ==
    /\ AnalyzedFresh
    /\ input = AstProgram(<<AstFunction("f", <<>>, <<AstIf(IdA, <<>>,
                                                    Some(<<AstCall("f", <<>>)>>))>>),
                            AstFunction("g", <<"a">>, <<>>)>>)
    /\ max_depth = 3

\* C18: the statistics after analyze(t) are those of t alone, whatever trees
\* the analyzer was handed before.
C18_AnalyzeKeepsNoState ==
    last.op = "analyze" =>
        /\ function_count = CountOf(input, "Function")
        /\ var_count = CountOf(input, "VarDecl")
        /\ call_count = CountOf(input, "Call")
        /\ max_depth = DepthOf(input)

(***************************************************************************)
(* Dead-code elimination of an If whose condition is an integer literal.   *)
(***************************************************************************)
\* the last call eliminated dead code in an input If with a literal condition
EliminatedConstantIf ==
    /\ last.op = "transform_stmt"
    /\ last.result.transformation_type = "DeadCodeElimination"
    /\ input.tag = "If"
    /\ input.condition.tag = "Int"

\* the branch the literal condition of the input takes
TakenBranch ==
    IF input.condition.val # 0 THEN input.then_block ELSE input.else_block

\* C19: dead-code elimination of an If with a literal condition whose taken
\* branch holds exactly one statement returns that statement, nothing of the
\* other branch, and reports at least one change.
C19_SingleTakenStatement ==
    (EliminatedConstantIf /\ Len(TakenBranch) = 1)
        => /\ last.result.transformed = TakenBranch[1]
           /\ last.result.changes_made >= 1

\* a false condition: the else branch holds one assignment, the then branch
\* another statement
C19_Witness ==
    /\ EliminatedConstantIf
    /\ input.condition = ExprInt(0)
    /\ Len(input.else_block) = 1 /\ Len(input.then_block) = 1
    /\ input.then_block[1] # input.else_block[1]
    /\ last.result.transformed = input.else_block[1]
    /\ last.result.transformed.tag = "Assign"
    /\ last.result.changes_made = 1

\* C20: dead-code elimination of an If with a literal condition whose taken
\* branch is empty returns the statement Expr(Int(0)), for a true and for a
\* false condition.
C20_EmptyTakenBranchIsNoOp ==
    (EliminatedConstantIf /\ TakenBranch = <<>>)
        => last.result.transformed = StmtExpr(ExprInt(0))

\* C21: dead-code elimination of an If with a literal condition whose taken
\* branch holds two or more statements returns an If with a literal condition
\* that is true when the then branch was taken and false when the else branch
\* was, holding the statements of the taken branch in their order and an
\* empty other branch.
C21_ShellHoldsTakenBranch ==
    (EliminatedConstantIf /\ Len(TakenBranch) >= 2)
        => LET shell == last.result.transformed
           IN  /\ shell.tag = "If"
               /\ shell.condition.tag = "Int"
               /\ IF input.condition.val # 0
                  THEN /\ shell.condition.val # 0
                       /\ shell.then_block = input.then_block
                       /\ shell.else_block = <<>>
                  ELSE /\ shell.condition.val = 0
                       /\ shell.else_block = input.else_block
                       /\ shell.then_block = <<>>

\* a false condition, two different statements in the else branch and a
\* then branch that is dropped
C21_Witness ==
    /\ EliminatedConstantIf
    /\ input.condition = ExprInt(0)
    /\ Len(input.else_block) = 2
    /\ input.else_block[1] # input.else_block[2]
    /\ input.then_block # <<>>
    /\ last.result.transformed = StmtIf(ExprInt(0), <<>>, input.else_block)

(***************************************************************************)
(* The preservation level of a TransformationResult.                       *)
(***************************************************************************)
TransformedStmt == last.op = "transform_stmt"

\* C22: the preservation level of a transform_stmt result is Guaranteed for
\* constant folding and expression simplification, Likely for dead-code
\* elimination and loop unrolling and Unsafe for function inlining, whatever
\* the input statement and the unroll limit.
C22_LevelByStrategy ==
    TransformedStmt =>
        LET strategy == last.result.transformation_type
            level == last.result.preservation_level
        IN  /\ strategy \in {"ConstantFolding", "ExpressionSimplification"}
                  => level = "Guaranteed"
            /\ strategy \in {"DeadCodeElimination", "LoopUnrolling"}
                  => level = "Likely"
            /\ strategy = "FunctionInlining" => level = "Unsafe"

\* dead-code elimination that changed an If, under a changed unroll limit
C22_Witness ==
    /\ TransformedStmt
    /\ last.result.transformation_type = "DeadCodeElimination"
    /\ last.result.preservation_level = "Likely"
    /\ input.tag = "If"
    /\ last.result.changes_made > 0
    /\ max_unroll # DefaultMaxUnroll

(***************************************************************************)
(* mark_constant and the references constant_fold substitutes.             *)
(***************************************************************************)
RECURSIVE VarRefs(_)
RECURSIVE VarRefsOfAll(_)

\* the variable references of the expressions of a sequence, in order
VarRefsOfAll(exprs) ==
    IF exprs = <<>> THEN <<>>
    ELSE VarRefs(Head(exprs)) \o VarRefsOfAll(Tail(exprs))

\* the names of the Var nodes of an expression, left to right
VarRefs(expr) ==
    CASE expr.tag = "Int" -> <<>>
      [] expr.tag = "Var" -> <<expr.name>>
      [] expr.tag = "BinOp" -> VarRefs(expr.left) \o VarRefs(expr.right)
      [] expr.tag = "Call" -> VarRefsOfAll(expr.args)

RECURSIVE Substituted(_, _)

\* the expression with every reference to a variable of the table replaced by
\* the literal of the table's value
Substituted(expr, table) ==
    CASE expr.tag = "Int" -> expr
      [] expr.tag = "Var" ->
            IF expr.name \in DOMAIN table THEN ExprInt(table[expr.name]) ELSE expr
      [] expr.tag = "BinOp" ->
            ExprBinOp(expr.op, Substituted(expr.left, table),
                      Substituted(expr.right, table))
      [] expr.tag = "Call" ->
            ExprCall(expr.name,
                     [i \in 1 .. Len(expr.args) |-> Substituted(expr.args[i], table)])

\* after a mark_constant call the table holds the marked value for the marked
\* name and what it held before for every other name
MarkIsMostRecent ==
    last'.op = "mark_constant" =>
        /\ last'.name \in DOMAIN constant_vars'
        /\ constant_vars'[last'.name] = last'.value
        /\ \A other \in VarNames \ {last'.name} :
              /\ other \in DOMAIN constant_vars' <=> other \in DOMAIN constant_vars
              /\ other \in DOMAIN constant_vars
                    => constant_vars'[other] = constant_vars[other]

\* the folded expression is the fold of the input with the table's literals
\* in place of the marked variables; its references are the references of the
\* input to unmarked variables
FoldSubstitutesTable ==
    Folded =>
        /\ last.result = constant_fold(EmptyMap, Substituted(input, constant_vars))
        /\ VarRefs(last.result)
              = SelectSeq(VarRefs(input), LAMBDA v : v \notin DOMAIN constant_vars)

\* C23: after any sequence of mark_constant calls the table holds, for every
\* marked variable, the value most recently marked for it; constant folding
\* replaces every reference to a marked variable by the literal of that value
\* and leaves the references to unmarked variables as they are.
C23_FoldUsesLatestMark ==
    /\ [][MarkIsMostRecent]_vars
    /\ []FoldSubstitutesTable

\* x is marked MaxLit, y is not: x + y folds to MaxLit + y
C23_Witness ==
    /\ Folded
    /\ DOMAIN constant_vars = {"x"} /\ constant_vars["x"] = MaxLit
    /\ input = ExprBinOp("Add", ExprVar("x"), ExprVar("y"))
    /\ last.result = ExprBinOp("Add", ExprInt(MaxLit), ExprVar("y"))

(***************************************************************************)
(* The text of a binary operation.                                         *)
(***************************************************************************)
RECURSIVE Parenthesized(_)

\* a BinaryOp is one "(", the left operand, the operator between two spaces,
\* the right operand and one ")", the operands written the same way; what is
\* no BinaryOp is written as the generator writes it
Parenthesized(expr) ==
    IF expr.tag = "BinaryOp"
    THEN "(" \o Parenthesized(expr.left) \o " " \o BinaryOperatorDisplay(expr.op)
             \o " " \o Parenthesized(expr.right) \o ")"
    ELSE generate_expr(expr)

\* C24: every BinaryOp is rendered as "(" left " " op " " right ")" with the
\* operands rendered the same way, for every operator: as the tree itself,
\* as the value of a declaration and as the expression of a return.
C24_FullyParenthesized ==
    Generated =>
        /\ input.tag = "BinaryOp" => last.result = Parenthesized(input)
        /\ (input.tag = "VarDecl" /\ input.value.tag = "BinaryOp")
              => last.result
                    = "let " \o input.name \o " = " \o Parenthesized(input.value) \o ";"
        /\ (input.tag = "Return" /\ input.expr.tag = "BinaryOp")
              => last.result = "return " \o Parenthesized(input.expr) \o ";"

\* a product whose operands are a sum and a difference: three pairs
C24_Witness ==
    /\ Generated
    /\ input = AstBinaryOp("Multiply", AstBinaryOp("Add", IdA, Int1),
                           AstBinaryOp("Subtract", IdA, Int1))
    /\ last.result = "((a + 1) * (a - 1))"

(***************************************************************************)
(* recipe_300_2: trait AstVisitor.  A visit is a call of visit_node on a   *)
(* node; visited is the sequence of the nodes visited so far.              *)
(***************************************************************************)
RECURSIVE visit_node(_, _)
RECURSIVE visit_nodes(_, _)

\* the loops `for n in nodes { self.visit_node(n)?; }`
visit_nodes(visited, nodes) ==
    IF nodes = <<>> THEN visited
    ELSE visit_nodes(visit_node(visited, Head(nodes)), Tail(nodes))

\* a BinaryOp arm that visits the right operand before the left
visit_BinaryOp_RightFirst(visited, node) ==
    visit_node(visit_node(visited, node.right), node.left)

\* the BinaryOp arm of visit_node
visit_BinaryOp(visited, node) ==
    visit_node(visit_node(visited, node.left), node.right)

\* the If arm of visit_node
visit_If(visited, node) ==
    LET then_done == visit_nodes(visit_node(visited, node.condition), node.then_branch)
    IN  IF node.else_branch.some
        THEN visit_nodes(then_done, node.else_branch.val)
        ELSE then_done

(***************************************************************************)
(* AstVisitor::visit_node(&mut self, node), the default method: the nodes  *)
(* visited once the call has returned Ok(())                               *)
(***************************************************************************)
visit_node(visited, node) ==
    LET seen == Append(visited, node)
    IN  CASE node.tag = "Program" -> visit_nodes(seen, node.nodes)
          [] node.tag = "Function" -> visit_nodes(seen, node.body)
          [] node.tag = "VarDecl" -> visit_node(seen, node.value)
          [] node.tag = "Assignment" -> visit_node(seen, node.value)
          [] node.tag = "BinaryOp" -> visit_BinaryOp(seen, node)
          [] node.tag = "Call" -> visit_nodes(seen, node.args)
          [] node.tag = "If" -> visit_If(seen, node)
          [] node.tag = "Return" -> visit_node(seen, node.expr)
          [] node.tag \in {"Identifier", "Literal"} -> seen

(***************************************************************************)
(* a call visitor.visit_node(&tree) of a visitor that keeps the default    *)
(***************************************************************************)
VisitNode(tree) ==
    /\ input' = tree
    /\ last' = [op |-> "visit_node", visited |-> visit_node(<<>>, tree)]
    /\ UNCHANGED <<constant_vars, max_unroll, renames, generator, checker, analyzer>>

(***************************************************************************)
(* Traversal: visit_node calls on one tree after another; input is the     *)
(* tree of the most recent call.                                           *)
(***************************************************************************)
InitVisit ==
    /\ TransformerNew
    /\ AstTransformerNew
    /\ CodeGeneratorNew /\ EquivalenceCheckerNew /\ AstAnalyzerNew
    /\ input = AstProgram(<<>>)
    /\ last = [op |-> "new"]

NextVisit == \E tree \in Trees : VisitNode(tree)

SpecVisit == InitVisit /\ [][NextVisit]_vars

\* the children of a node, left to right: the statements of a Program or a
\* Function body, the value of a declaration or an assignment, the expression
\* of a Return, left then right of a BinaryOp, the arguments of a Call, and
\* of an If the condition, the then statements, the else statements
ChildNodes(node) ==
    IF node.tag = "Program" THEN node.nodes
    ELSE IF node.tag = "Function" THEN node.body
    ELSE IF node.tag \in {"VarDecl", "Assignment"} THEN <<node.value>>
    ELSE IF node.tag = "Return" THEN <<node.expr>>
    ELSE IF node.tag = "BinaryOp" THEN <<node.left, node.right>>
    ELSE IF node.tag = "Call" THEN node.args
    ELSE IF node.tag = "If"
    THEN <<node.condition>> \o node.then_branch
             \o (IF node.else_branch.some THEN node.else_branch.val ELSE <<>>)
    ELSE <<>>

RECURSIVE Preorder(_)
RECURSIVE PreorderOfAll(_)

PreorderOfAll(nodes) ==
    IF nodes = <<>> THEN <<>>
    ELSE Preorder(Head(nodes)) \o PreorderOfAll(Tail(nodes))

\* the nodes of a tree, each once: a node, then its children left to right,
\* each followed by its own
Preorder(node) == <<node>> \o PreorderOfAll(ChildNodes(node))

Visited == last.op = "visit_node"

\* C25: the default traversal visits every node of the tree exactly once, a
\* parent before its children and the children left to right.
C25_VisitsPreorder ==
    Visited =>
        /\ last.visited = Preorder(input)
        /\ Len(last.visited) = Len(NodesOf(input, 0))

\* an If below a function: condition, then statement, else statement, and a
\* declaration before it
C25_Witness ==
    /\ Visited
    /\ input = AstFunction("f", <<"a">>,
                           <<AstVarDecl("a", Int1),
                             AstIf(IdA, <<AstReturn(IdA)>>, Some(<<AstCall("f", <<>>)>>))>>)
    /\ last.visited =
          <<input, AstVarDecl("a", Int1), Int1,
            AstIf(IdA, <<AstReturn(IdA)>>, Some(<<AstCall("f", <<>>)>>)),
            IdA, AstReturn(IdA), IdA, AstCall("f", <<>>)>>

\* C26: for every strategy and every input statement, transform_stmt reports
\* changes_made = 0 exactly when the transformed statement equals the
\* original.
C26_ChangesIffDifferent ==
    TransformedStmt =>
        (last.result.changes_made = 0 <=> last.result.transformed = last.result.original)

(***************************************************************************)
(* The indentation counter of the CodeGenerator.                           *)
(***************************************************************************)
RECURSIVE BlockDepth(_)

\* the blocks generate_node enters one inside another: a function body, a
\* then branch and an else branch are each one deeper than their statement;
\* a statement in the place of a value is never entered
BlockDepth(node) ==
    LET Deepest(stmts) ==
            IF stmts = <<>> THEN 0
            ELSE CHOOSE d \in {BlockDepth(stmts[i]) : i \in 1 .. Len(stmts)} :
                     \A i \in 1 .. Len(stmts) : BlockDepth(stmts[i]) <= d
    IN  CASE node.tag = "Program" -> Deepest(node.nodes)
          [] node.tag = "Function" -> 1 + Deepest(node.body)
          [] node.tag = "If" ->
                1 + Max(Deepest(node.then_branch),
                        IF node.else_branch.some
                        THEN Deepest(node.else_branch.val) ELSE 0)
          [] OTHER -> 0

\* C27: the indentation counter is stepped up on entering and back on leaving
\* every function body, then branch and else branch: during generate it is
\* never below its starting value 0 and reaches the depth of the innermost
\* block, and it is 0 again when generate returns, for every tree.
C27_IndentRestored ==
    /\ indent_level = 0
    /\ Generated =>
          /\ last.low = 0
          /\ last.high = BlockDepth(input)

\* a function whose body holds an If with both branches: two levels deep
C27_Witness ==
    /\ Generated
    /\ input = AstFunction("f", <<>>,
                           <<AstCall("f", <<>>),
                             AstIf(IdA, <<AstReturn(IdA)>>, Some(<<AstCall("f", <<>>)>>))>>)
    /\ last.high = 2 /\ last.low = 0
    /\ indent_level = 0

(***************************************************************************)
(* add_test_case and the verdict of the checker.                           *)
(***************************************************************************)
\* what expressions_equivalent returns for the input under test cases
Verdict(tcs) == expressions_equivalent(tcs, input.expr1, input.expr2)

\* C28: test cases are only appended, and once at least one test case is
\* registered a pair of expressions that expressions_equivalent rejects is
\* rejected after every further add_test_case call.
C28_StricterOnly ==
    [][/\ Len(test_cases') >= Len(test_cases)
       /\ SubSeq(test_cases', 1, Len(test_cases)) = test_cases
       /\ (test_cases # <<>> /\ ~Verdict(test_cases)) => ~Verdict(test_cases')]_vars

\* the expressions differ under the first test case and agree under the
\* second, added later: the verdict is still false
C28_Witness ==
    /\ Compared
    /\ Len(test_cases) = 2
    /\ ~Verdict(<<test_cases[1]>>)
    /\ Verdict(<<test_cases[2]>>)
    /\ BothDefined(test_cases[1]) /\ BothDefined(test_cases[2])
    /\ last.result = FALSE

(***************************************************************************)
(* Renames whose new names are keys of the table.                          *)
(***************************************************************************)
\* C29: transform looks every name up once: a name position holding a key of
\* the table holds that key's new name afterwards, whether or not the new
\* name is a key itself, and every other name position is unchanged; so
\* {a -> b, b -> c} turns a into b and b into c, and {a -> b, b -> a} swaps
\* the two names.
C29_SingleLookup ==
    Transformed =>
        LET before == NamePositions(input)
            after == NamePositions(last.result)
        IN  /\ Len(after) = Len(before)
            /\ \A i \in 1 .. Len(before) :
                  after[i] = IF before[i] \in DOMAIN renames
                             THEN renames[before[i]] ELSE before[i]

\* the table {a -> b, b -> c} and a tree that declares a as b plus a call of c
C29_Witness ==
    /\ Transformed
    /\ DOMAIN renames = {"a", "b"}
    /\ renames["a"] = "b" /\ renames["b"] = "c"
    /\ NamePositions(input) = <<"a", "b">>
    /\ NamePositions(last.result) = <<"b", "c">>

\* the table {a -> b, b -> a}: the two names are swapped
C29_SwapWitness ==
    /\ Transformed
    /\ DOMAIN renames = {"a", "b"}
    /\ renames["a"] = "b" /\ renames["b"] = "a"
    /\ NamePositions(input) = <<"a", "b">>
    /\ NamePositions(last.result) = <<"b", "a">>

(***************************************************************************)
(* Loop bodies under loop unrolling and dead-code elimination.             *)
(***************************************************************************)
\* the strategy unrolls the Loop: loop unrolling of a count within the limit
Unrolls(strategy, loop) ==
    strategy = "LoopUnrolling" /\ 0 < loop.count /\ loop.count <= max_unroll

\* out is what the strategy makes of the Loop without rewriting a statement
\* of its body: the shell of count copies of the body, or the Loop itself
BodyVerbatim(strategy, loop, out) ==
    IF Unrolls(strategy, loop)
    THEN IsShell(out) /\ IsCopies(out.then_block, loop.body, loop.count)
    ELSE out = loop

\* the Loops of a block are rewritten to their images in the block out
LoopsVerbatim(strategy, block, out) ==
    /\ Len(out) = Len(block)
    /\ \A i \in 1 .. Len(block) :
          block[i].tag = "Loop" => BodyVerbatim(strategy, block[i], out[i])

\* C30: loop unrolling and dead-code elimination rewrite no statement inside
\* a Loop body: a Loop left in place is returned as it is, an unrolled Loop
\* becomes the shell of verbatim copies of its body, whether the Loop is the
\* input or a statement of a branch of the input, and for a Loop as the
\* input changes_made counts the unrolling alone.
C30_LoopBodyUntouched ==
    (TransformedStmt
        /\ last.result.transformation_type \in {"LoopUnrolling", "DeadCodeElimination"})
        => LET strategy == last.result.transformation_type
               out == last.result.transformed
           IN  /\ input.tag = "Loop"
                     => /\ BodyVerbatim(strategy, input, out)
                        /\ last.result.changes_made
                              = IF Unrolls(strategy, input) THEN 1 ELSE 0
               /\ (input.tag = "If"
                      /\ ~(strategy = "DeadCodeElimination" /\ input.condition.tag = "Int"))
                     => /\ out.tag = "If"
                        /\ LoopsVerbatim(strategy, input.then_block, out.then_block)
                        /\ LoopsVerbatim(strategy, input.else_block, out.else_block)

\* a Loop is unrolled whose body is a Loop within the limit: the copies are
\* that Loop, and one change is counted
C30_Witness ==
    /\ TransformedStmt
    /\ last.result.transformation_type = "LoopUnrolling"
    /\ input.tag = "Loop" /\ input.count = 2 /\ max_unroll >= 2
    /\ Len(input.body) = 1
    /\ input.body[1].tag = "Loop" /\ input.body[1].count = 1
    /\ last.result.transformed = StmtIf(ExprInt(1), input.body \o input.body, <<>>)
    /\ last.result.changes_made = 1

\* dead-code elimination leaves an If with a constant condition in place in
\* the body of a Loop
C30_DeadCodeWitness ==
    /\ TransformedStmt
    /\ last.result.transformation_type = "DeadCodeElimination"
    /\ input.tag = "Loop" /\ Len(input.body) = 1
    /\ input.body[1].tag = "If" /\ input.body[1].condition = ExprInt(0)
    /\ last.result.transformed = input
    /\ last.result.changes_made = 0

====
